---------------------------- MODULE Spec2Model ----------------------------
(***************************************************************************)
(* Model of salary_calculation.py: the two memoized providers              *)
(* (get_work_calendar, get_holidays_and_short_days), the salary            *)
(* calculator (calculate_salary) and the payday scheduler                  *)
(* (get_payday_schedule, get_previous_working_day).                        *)
(*                                                                         *)
(* Dates are proleptic Gregorian ordinals as datetime.date.toordinal()     *)
(* gives them (0001-01-01 is day 1, a Monday).  Python floats are modelled *)
(* as exact rationals in lowest terms, <<numerator, denominator>>: the     *)
(* model abstracts from binary rounding, which is many orders of magnitude *)
(* below the 0.01 tolerances the properties speak of.                      *)
(***************************************************************************)
EXTENDS Integers, Sequences, FiniteSets, TLC

VARIABLES
    calendar_cache,   \* st.cache_data of get_work_calendar: year -> calendar
    holidays_cache,   \* st.cache_data of get_holidays_and_short_days: year -> holiday dates
    pc,               \* "idle": the caller is about to call; "returned": a call has ended
    op,               \* the call that ended last: its name and arguments
    result            \* how that call ended: a value or an exception

vars == <<calendar_cache, holidays_cache, pc, op, result>>

---------------------------------------------------------------------------
(* Bounds of the model's inputs *)

\* advance_day is drawn from 1..MaxAdvanceDay
MaxAdvanceDay == 31

\* days_worked of a direct calculate_salary call is drawn from 0..MaxDaysWorked
MaxDaysWorked == 23

\* the years the caller asks for: 2016 is a leap year whose next 1 January is a
\* Sunday, 2025 is the year of the repository's tests
Years == {2016, 2025}

Months == 1..12

GROSS == "gross"   \* "До вычета НДФЛ"
NET == "net"       \* "На руки"
Modes == {GROSS, NET}

---------------------------------------------------------------------------
(* datetime.date *)

IsLeap(y) == y % 4 = 0 /\ (y % 100 # 0 \/ y % 400 = 0)

DaysInMonth(y, m) ==
    IF m = 2 THEN (IF IsLeap(y) THEN 29 ELSE 28)
    ELSE IF m \in {4, 6, 9, 11} THEN 30 ELSE 31

DaysBeforeYear(y) ==
    (y - 1) * 365 + (y - 1) \div 4 - (y - 1) \div 100 + (y - 1) \div 400

\* the days of year y before the first of month m
DaysBeforeMonth(y, m) ==
    <<0, 31, 59, 90, 120, 151, 181, 212, 243, 273, 304, 334>>[m]
    + (IF m > 2 /\ IsLeap(y) THEN 1 ELSE 0)

\* date(y, m, d).toordinal()
ToOrdinal(y, m, d) == DaysBeforeYear(y) + DaysBeforeMonth(y, m) + d

\* the years a date of the model can lie in
DateYears == UNION {{y - 1, y, y + 1} : y \in Years}

\* date.fromordinal(n).year, .month, .day
DateYear(n) ==
    CHOOSE y \in DateYears : DaysBeforeYear(y) < n /\ n <= DaysBeforeYear(y + 1)

DateMonth(n) ==
    LET y == DateYear(n)
        k == n - DaysBeforeYear(y)
    IN  CHOOSE m \in Months :
            DaysBeforeMonth(y, m) < k /\ k <= DaysBeforeMonth(y, m) + DaysInMonth(y, m)

DateDay(n) ==
    LET y == DateYear(n)
    IN  n - DaysBeforeYear(y) - DaysBeforeMonth(y, DateMonth(n))

\* date.weekday(): 0 is Monday, 5 Saturday, 6 Sunday
Weekday(n) == (n + 6) % 7

---------------------------------------------------------------------------
(* float arithmetic, as exact rationals <<n, d>> with d > 0 in lowest terms *)

Abs(x) == IF x < 0 THEN -x ELSE x

RECURSIVE Gcd(_, _)
Gcd(a, b) == IF b = 0 THEN Abs(a) ELSE Gcd(b, a % b)

Rat(n, d) ==
    LET s == IF d < 0 THEN -1 ELSE 1
        g == Gcd(Abs(n), Abs(d))
    IN  <<(s * n) \div g, (s * d) \div g>>

FromInt(i) == <<i, 1>>

RMul(a, b) ==
    LET g1 == Gcd(Abs(a[1]), b[2])
        g2 == Gcd(Abs(b[1]), a[2])
    IN  <<(a[1] \div g1) * (b[1] \div g2), (a[2] \div g2) * (b[2] \div g1)>>

\* a / b for b # 0
RDiv(a, b) == RMul(a, IF b[1] < 0 THEN <<-b[2], -b[1]>> ELSE <<b[2], b[1]>>)

RSub(a, b) ==
    LET g == Gcd(a[2], b[2])
    IN  Rat(a[1] * (b[2] \div g) - b[1] * (a[2] \div g), (a[2] \div g) * b[2])

RAdd(a, b) == RSub(a, <<-b[1], b[2]>>)

RLeq(a, b) == RSub(a, b)[1] <= 0

RAbs(a) == <<Abs(a[1]), a[2]>>

\* |a - b| <= tol
RNear(a, b, tol) == RLeq(RAbs(RSub(a, b)), tol)

---------------------------------------------------------------------------
(* What the two remote sources can answer *)

\* workingDays of the months of a year as the calendar source lists them, by
\* the source's month id 0..11 (2025 as the repository's tests state it)
PublishedWorkingDays(year) ==
    IF year = 2025
    THEN <<17, 20, 21, 22, 18, 19, 23, 21, 22, 23, 19, 22>>
    ELSE <<15, 20, 21, 21, 19, 21, 21, 23, 22, 21, 21, 22>>

\* the "months" list of a calendar response: month id 0..11 -> month object
MonthsResponse(days) == [id \in 0..11 |-> [id |-> id, workingDays |-> days[id + 1]]]

\* the answers of GET /api/calendar/{year}: the published calendar, and one
\* in which a month (id 2, March) has no working day at all
CalendarResponses(year) ==
    { MonthsResponse(PublishedWorkingDays(year)),
      MonthsResponse([PublishedWorkingDays(year) EXCEPT ![3] = 0]) }

\* an ISO-8601 date string of a holiday response, as its year, month and day
Iso(y, m, d) == [year |-> y, month |-> m, day |-> d]

\* the answers of GET /api/calendar/{year}/holidays: the public holidays of
\* the year, and a list that also closes the turn of the year (30 December
\* to 2 January) and the first days of June
HolidayResponses(year) ==
    { {Iso(year, 1, d) : d \in 1..8}
        \cup {Iso(year, 2, 23), Iso(year, 3, 8), Iso(year, 5, 1),
              Iso(year, 5, 9), Iso(year, 6, 12), Iso(year, 11, 4)},
      {Iso(year, 12, 30), Iso(year, 12, 31), Iso(year + 1, 1, 1),
       Iso(year + 1, 1, 2), Iso(year, 6, 1), Iso(year, 6, 2), Iso(year, 6, 3)} }

---------------------------------------------------------------------------
(* get_work_calendar and get_holidays_and_short_days, behind st.cache_data *)

\* the body of get_work_calendar on a successful response: month ids 0..11
\* are re-indexed to 1..12
ParseCalendar(months) ==
    [m \in {months[id].id + 1 : id \in DOMAIN months} |->
        [id |-> m, workingDays |-> months[m - 1].workingDays]]

\* the body of get_holidays_and_short_days on a successful response: each
\* date string becomes a date, its time of day dropped
ParseHolidays(holidays) == {ToOrdinal(h.year, h.month, h.day) : h \in holidays}

\* how a get_work_calendar(year) call can end.  A cached year is answered
\* from the cache without a request; otherwise one request is made, and
\* raise_for_status raises on a failure, which stores nothing
get_work_calendar(year) ==
    IF year \in DOMAIN calendar_cache
    THEN {[kind |-> "ok", value |-> calendar_cache[year], requests |-> 0]}
    ELSE {[kind |-> "ok", value |-> ParseCalendar(r), requests |-> 1] :
              r \in CalendarResponses(year)}
         \cup {[kind |-> "HTTPError", requests |-> 1]}

\* a provider that makes up for a failure, as get_usd_rate does: no holiday
\* at all when the source fails
get_holidays_and_short_days_or_none(year) ==
    IF year \in DOMAIN holidays_cache
    THEN {[kind |-> "ok", value |-> holidays_cache[year], requests |-> 0]}
    ELSE {[kind |-> "ok", value |-> ParseHolidays(r), requests |-> 1] :
              r \in HolidayResponses(year)}
         \cup {[kind |-> "ok", value |-> {}, requests |-> 1]}

get_holidays_and_short_days(year) ==
    IF year \in DOMAIN holidays_cache
    THEN {[kind |-> "ok", value |-> holidays_cache[year], requests |-> 0]}
    ELSE {[kind |-> "ok", value |-> ParseHolidays(r), requests |-> 1] :
              r \in HolidayResponses(year)}
         \cup {[kind |-> "HTTPError", requests |-> 1]}

\* a cache of one entry: a new year takes the place of the year before
CachedLatestOnly(cache, year, c) ==
    IF c.kind = "ok" /\ year \notin DOMAIN cache
    THEN [y \in {year} |-> c.value]
    ELSE cache

\* the cache after a call that ended as `c`
Cached(cache, year, c) ==
    IF c.kind = "ok" /\ year \notin DOMAIN cache
    THEN [y \in DOMAIN cache \cup {year} |-> IF y = year THEN c.value ELSE cache[y]]
    ELSE cache

\* the requests of the `n` get_work_calendar(year) lookups that the
\* calculate_salary calls of one get_payday_schedule call make, after the
\* lookup of the call itself left `cache`
LookupRequests(cache, year, n) ==
    IF year \in DOMAIN cache THEN 0 ELSE n

---------------------------------------------------------------------------
(* calculate_salary *)

TAX_RATE == <<13, 100>>

\* a slip: the amount of the whole month, whatever the days worked
PeriodAmountOfWholeMonth(amount, work_days, days_worked) ==
    RMul(RDiv(amount, FromInt(work_days)), FromInt(work_days))

\* daily_rate = amount / work_days; period_amount = daily_rate * days_worked
PeriodAmount(amount, work_days, days_worked) ==
    LET daily_rate == RDiv(amount, FromInt(work_days))
    IN  RMul(daily_rate, FromInt(days_worked))

\* a slip: the tax is computed and not withheld
GrossResultTaxNotWithheld(period_amount) ==
    [before_tax |-> period_amount, tax |-> RMul(period_amount, TAX_RATE),
     after_tax |-> period_amount]

\* a slip: the operands of the subtraction the other way round
GrossResultOperandsSwapped(period_amount) ==
    LET before_tax == period_amount
        tax == RMul(before_tax, TAX_RATE)
        after_tax == RSub(tax, before_tax)
    IN  [before_tax |-> before_tax, tax |-> tax, after_tax |-> after_tax]

\* the branch of mode "До вычета НДФЛ"
GrossResult(period_amount) ==
    LET before_tax == period_amount
        tax == RMul(before_tax, TAX_RATE)
        after_tax == RSub(before_tax, tax)
    IN  [before_tax |-> before_tax, tax |-> tax, after_tax |-> after_tax]

\* a slip: the tax is taken as 13% of the net amount and added on top
NetResultTaxOnNet(period_amount) ==
    LET tax == RMul(period_amount, TAX_RATE)
    IN  [before_tax |-> RAdd(period_amount, tax), tax |-> tax,
         after_tax |-> period_amount]

\* the branch of mode "На руки"
NetResult(period_amount) ==
    LET after_tax == period_amount
        before_tax == RDiv(after_tax, RSub(FromInt(1), TAX_RATE))
        tax == RMul(before_tax, TAX_RATE)
    IN  [before_tax |-> before_tax, tax |-> tax, after_tax |-> after_tax]

\* a slip: IEEE division, which gives an infinity (written <<1, 0>>) where
\* Python raises
calculate_salary_ieee(calendar, month, days_worked, amount, mode) ==
    LET work_days == calendar[month].workingDays
    IN  [kind |-> "ok",
         value |-> IF work_days = 0
                   THEN [before_tax |-> <<1, 0>>, tax |-> <<1, 0>>, after_tax |-> <<1, 0>>]
                   ELSE IF mode = GROSS
                   THEN GrossResult(PeriodAmount(amount, work_days, days_worked))
                   ELSE NetResult(PeriodAmount(amount, work_days, days_worked))]

\* calculate_salary past its calendar lookup: `calendar` is what
\* get_work_calendar(year) returned.  Python's `/` raises ZeroDivisionError
\* on a zero divisor, ints and floats alike
calculate_salary(calendar, month, days_worked, amount, mode) ==
    LET work_days == calendar[month].workingDays
    IN  IF work_days = 0
        THEN [kind |-> "ZeroDivisionError"]
        ELSE [kind |-> "ok",
              value |-> IF mode = GROSS
                        THEN GrossResult(PeriodAmount(amount, work_days, days_worked))
                        ELSE NetResult(PeriodAmount(amount, work_days, days_worked))]

---------------------------------------------------------------------------
(* get_previous_working_day *)

RECURSIVE get_previous_working_day(_, _)
get_previous_working_day(date, holidays) ==
    LET is_holiday == date \in holidays
        is_weekend == Weekday(date) >= 5
    IN  IF ~is_holiday /\ ~is_weekend
        THEN date
        ELSE get_previous_working_day(date - 1, holidays)

---------------------------------------------------------------------------
(* get_payday_schedule *)

\* working_days: None, or a list of (advance_working_days, salary_working_days)
None == <<>>
Some(list) == <<list>>

\* a slip: a table of month lengths that knows no leap year
LastDayOfMonthNoLeap(year, month) ==
    <<31, 28, 31, 30, 31, 30, 31, 31, 30, 31, 30, 31>>[month]

\* (date(year, month + 1, 1) - timedelta(days=1)).day if month < 12 else 31
LastDayOfMonth(year, month) ==
    IF month < 12 THEN DateDay(ToOrdinal(year, month + 1, 1) - 1) ELSE 31

original_advance_date(year, month, advance_day) ==
    LET last_day_of_month == LastDayOfMonth(year, month)
        actual_advance_day ==
            IF advance_day < last_day_of_month THEN advance_day ELSE last_day_of_month
    IN  ToOrdinal(year, month, actual_advance_day)

\* a slip: December's salary month wraps to January without the year moving on
original_salary_date_same_year(year, month, advance_day) ==
    LET salary_day == IF advance_day - 15 < 1 THEN 1 ELSE advance_day - 15
        salary_month == IF month + 1 > 12 THEN 1 ELSE month + 1
    IN  ToOrdinal(year, salary_month, salary_day)

original_salary_date(year, month, advance_day) ==
    LET salary_day == IF advance_day - 15 < 1 THEN 1 ELSE advance_day - 15
        salary_month == IF month + 1 > 12 THEN 1 ELSE month + 1
        salary_year == IF month + 1 > 12 THEN year + 1 ELSE year
        last_day_of_salary_month == LastDayOfMonth(salary_year, salary_month)
        actual_salary_day ==
            IF salary_day < last_day_of_salary_month
            THEN salary_day ELSE last_day_of_salary_month
    IN  ToOrdinal(salary_year, salary_month, actual_salary_day)

\* the while loop counting the working days from current_day to last_day
RECURSIVE CountWorkingDays(_, _, _)
CountWorkingDays(current_day, last_day, holidays) ==
    IF current_day > last_day
    THEN 0
    ELSE LET is_holiday == current_day \in holidays
             is_weekend == Weekday(current_day) >= 5
         IN  (IF ~is_holiday /\ ~is_weekend THEN 1 ELSE 0)
             + CountWorkingDays(current_day + 1, last_day, holidays)

\* a slip: the 15th is left out of the first half
max_advance_working_days_before_15th(year, month, holidays) ==
    CountWorkingDays(ToOrdinal(year, month, 1), ToOrdinal(year, month, 14), holidays)

\* the working days of days 1..15 of the month
max_advance_working_days(year, month, holidays) ==
    CountWorkingDays(ToOrdinal(year, month, 1), ToOrdinal(year, month, 15), holidays)

\* a slip: the advance date is held against the advance_day asked for, not
\* against the day the month allows
AdvanceItemMovedFromRequestedDay(c, month, p) ==
    LET original_advance == original_advance_date(c.year, month, c.advance_day)
        advance_date == get_previous_working_day(original_advance, c.holidays)
    IN  [date |-> advance_date, it_is |-> "advance",
         working_days |-> p.advance_working_days,
         max_working_days |-> p.max_advance_working_days,
         salary |-> p.advance_salary,
         date_was_moved |-> advance_date # ToOrdinal(c.year, month, 1) + c.advance_day - 1]

\* the advance item one iteration of the loop appends
AdvanceItem(c, month, p) ==
    LET original_advance == original_advance_date(c.year, month, c.advance_day)
        advance_date == get_previous_working_day(original_advance, c.holidays)
    IN  [date |-> advance_date, it_is |-> "advance",
         working_days |-> p.advance_working_days,
         max_working_days |-> p.max_advance_working_days,
         salary |-> p.advance_salary,
         date_was_moved |-> advance_date # original_advance]

\* a slip: the salary item shows the days available as the days worked
SalaryItemMaxAsWorked(c, month, p) ==
    LET original_salary == original_salary_date(c.year, month, c.advance_day)
        salary_date == get_previous_working_day(original_salary, c.holidays)
    IN  [date |-> salary_date, it_is |-> "salary",
         working_days |-> p.max_salary_working_days,
         max_working_days |-> p.max_salary_working_days,
         salary |-> p.salary_salary,
         date_was_moved |-> salary_date # original_salary]

\* the salary item one iteration of the loop appends
SalaryItem(c, month, p) ==
    LET original_salary == original_salary_date(c.year, month, c.advance_day)
        salary_date == get_previous_working_day(original_salary, c.holidays)
    IN  [date |-> salary_date, it_is |-> "salary",
         working_days |-> p.salary_working_days,
         max_working_days |-> p.max_salary_working_days,
         salary |-> p.salary_salary,
         date_was_moved |-> salary_date # original_salary]

\* a slip: the two appends in the other order
MonthItemsSalaryFirst(c, month, p) == <<SalaryItem(c, month, p), AdvanceItem(c, month, p)>>

\* the two schedule.append calls of one iteration
MonthItems(c, month, p) == <<AdvanceItem(c, month, p), SalaryItem(c, month, p)>>

\* len(working_days) != 12
WrongCount(working_days) == Len(working_days) # 12

\* a slip: a month used to the full is rejected too
ExceedsCalendarInclusive(advance_working_days, salary_working_days, work_days) ==
    advance_working_days + salary_working_days >= work_days

\* a slip: only the advance period is held against the month
ExceedsCalendarAdvanceOnly(advance_working_days, salary_working_days, work_days) ==
    advance_working_days > work_days

\* advance_working_days + salary_working_days > calendar[month]["workingDays"]
ExceedsCalendar(advance_working_days, salary_working_days, work_days) ==
    advance_working_days + salary_working_days > work_days

\* a slip: the salary is priced by the month it is paid in
SalaryLegMonthOfPayment(month) == IF month = 12 THEN 1 ELSE month + 1

\* the month whose calendar entry prices the salary: calculate_salary is
\* called with the loop's `month`
SalaryLegMonth(month) == month

\* the `for month in range(1, 13)` loop from `month` on.  c holds the call's
\* arguments and the two provider results; n counts the
\* get_previous_working_day and calculate_salary invocations of the call so
\* far.  Of an iteration, the two dates are adjusted first, then the
\* overrides of the month are checked, then the two salaries are computed
RECURSIVE ScheduleLoop(_, _, _, _)
ScheduleLoop(c, month, schedule, n) ==
    IF month > 12
    THEN [kind |-> "ok", value |-> schedule,
          date_adjustments |-> n.date_adjustments, salary_calls |-> n.salary_calls]
    ELSE
    LET work_days == c.calendar[month].workingDays
        max_advance == max_advance_working_days(c.year, month, c.holidays)
        max_salary == work_days - max_advance
        advance_working_days ==
            IF c.working_days # None THEN c.working_days[1][month][1] ELSE max_advance
        salary_working_days ==
            IF c.working_days # None THEN c.working_days[1][month][2] ELSE max_salary
        advance_salary ==
            calculate_salary(c.calendar, month, advance_working_days, c.amount, c.mode)
        salary_salary ==
            calculate_salary(c.calendar, SalaryLegMonth(month), salary_working_days,
                             c.amount, c.mode)
    IN  IF /\ c.working_days # None
           /\ ExceedsCalendar(advance_working_days, salary_working_days, work_days)
        THEN [kind |-> "ValueError",
              date_adjustments |-> n.date_adjustments + 2,
              salary_calls |-> n.salary_calls]
        ELSE IF advance_salary.kind # "ok"
        THEN [kind |-> advance_salary.kind,
              date_adjustments |-> n.date_adjustments + 2,
              salary_calls |-> n.salary_calls + 1]
        ELSE IF salary_salary.kind # "ok"
        THEN [kind |-> salary_salary.kind,
              date_adjustments |-> n.date_adjustments + 2,
              salary_calls |-> n.salary_calls + 2]
        ELSE ScheduleLoop(c, month + 1,
                 schedule \o MonthItems(c, month,
                     [advance_working_days |-> advance_working_days,
                      salary_working_days |-> salary_working_days,
                      max_advance_working_days |-> max_advance,
                      max_salary_working_days |-> max_salary,
                      advance_salary |-> advance_salary.value,
                      salary_salary |-> salary_salary.value]),
                 [date_adjustments |-> n.date_adjustments + 2,
                  salary_calls |-> n.salary_calls + 2])

\* another order of work: all twelve pairs are checked before the loop starts
get_payday_schedule_checking_first(c) ==
    IF c.working_days # None /\ WrongCount(c.working_days[1])
    THEN [kind |-> "ValueError", date_adjustments |-> 0, salary_calls |-> 0]
    ELSE IF /\ c.working_days # None
            /\ \E m \in Months :
                 ExceedsCalendar(c.working_days[1][m][1], c.working_days[1][m][2],
                                 c.calendar[m].workingDays)
    THEN [kind |-> "ValueError", date_adjustments |-> 0, salary_calls |-> 0]
    ELSE ScheduleLoop(c, 1, <<>>, [date_adjustments |-> 0, salary_calls |-> 0])

\* get_payday_schedule past its two provider calls
get_payday_schedule(c) ==
    IF c.working_days # None /\ WrongCount(c.working_days[1])
    THEN [kind |-> "ValueError", date_adjustments |-> 0, salary_calls |-> 0]
    ELSE ScheduleLoop(c, 1, <<>>, [date_adjustments |-> 0, salary_calls |-> 0])

---------------------------------------------------------------------------
(* The caller: what it passes *)

AdvanceDays == 1..MaxAdvanceDay

DaysWorked == 0..MaxDaysWorked

Amounts == {FromInt(0), FromInt(60000)}

\* a list of n equal (advance, salary) pairs
Uniform(n, a, s) == [i \in 1..n |-> <<a, s>>]

\* the working_days arguments: none; twelve pairs within every published
\* month; twelve pairs of zero days; twelve pairs of which May's exceeds the
\* month; twelve pairs exceeding January already; eleven pairs; twelve pairs
\* with a negative number of advance days (the function takes any integers)
OverrideChoices ==
    { None,
      Some(Uniform(12, 5, 10)),
      Some(Uniform(12, 0, 0)),
      Some([Uniform(12, 5, 10) EXCEPT ![5] = <<10, 10>>]),
      Some(Uniform(12, 9, 9)),
      Some(Uniform(11, 5, 10)),
      Some(Uniform(12, -1, 10)) }

\* the smaller argument sets of the specification of the whole process
SampleAdvanceDays == {1, 16, 25, MaxAdvanceDay}
SampleDaysWorked == {0, 15, MaxDaysWorked}

\* the years a caller that keeps to one year may ask for: any year at
\* first, then the year it has asked for
YearsInUse ==
    IF DOMAIN calendar_cache \cup DOMAIN holidays_cache = {}
    THEN Years
    ELSE DOMAIN calendar_cache \cup DOMAIN holidays_cache

NoCall == [name |-> "none"]
NoResult == [kind |-> "none"]

---------------------------------------------------------------------------
(* The process *)

Init ==
    /\ calendar_cache = <<>>
    /\ holidays_cache = <<>>
    /\ pc = "idle"
    /\ op = NoCall
    /\ result = NoResult

\* the caller calls get_work_calendar(year)
GetWorkCalendar(years) ==
    /\ pc = "idle"
    /\ \E year \in years : \E cal \in get_work_calendar(year) :
        /\ calendar_cache' = Cached(calendar_cache, year, cal)
        /\ op' = [name |-> "get_work_calendar", year |-> year]
        /\ result' = cal
    /\ pc' = "returned"
    /\ UNCHANGED holidays_cache

\* the caller calls get_holidays_and_short_days(year)
GetHolidaysAndShortDays(years) ==
    /\ pc = "idle"
    /\ \E year \in years : \E hol \in get_holidays_and_short_days(year) :
        /\ holidays_cache' = Cached(holidays_cache, year, hol)
        /\ op' = [name |-> "get_holidays_and_short_days", year |-> year]
        /\ result' = hol
    /\ pc' = "returned"
    /\ UNCHANGED calendar_cache

\* the caller calls calculate_salary(month, year, days_worked, amount, mode)
CalculateSalary(years, days) ==
    /\ pc = "idle"
    /\ \E month \in Months, year \in years, days_worked \in days,
          amount \in Amounts, mode \in Modes :
       \E cal \in get_work_calendar(year) :
        /\ calendar_cache' = Cached(calendar_cache, year, cal)
        /\ op' = [name |-> "calculate_salary", month |-> month, year |-> year,
                  days_worked |-> days_worked, amount |-> amount, mode |-> mode]
        /\ result' =
             IF cal.kind # "ok"
             THEN [kind |-> cal.kind, requests |-> cal.requests]
             ELSE [requests |-> cal.requests]
                  @@ calculate_salary(cal.value, month, days_worked, amount, mode)
    /\ pc' = "returned"
    /\ UNCHANGED holidays_cache

\* the caller calls get_payday_schedule(year, advance_day, mode, amount, working_days)
GetPaydaySchedule(years, days) ==
    /\ pc = "idle"
    /\ \E year \in years, advance_day \in days, mode \in Modes,
          amount \in Amounts, working_days \in OverrideChoices :
       \E cal \in get_work_calendar(year) :
       \E hol \in IF cal.kind = "ok" THEN get_holidays_and_short_days(year)
                  ELSE {[kind |-> "not called", requests |-> 0]} :
        /\ calendar_cache' = Cached(calendar_cache, year, cal)
        /\ holidays_cache' = Cached(holidays_cache, year, hol)
        /\ op' = [name |-> "get_payday_schedule", year |-> year,
                  advance_day |-> advance_day, mode |-> mode, amount |-> amount,
                  working_days |-> working_days]
        /\ result' =
             LET r == IF cal.kind # "ok" THEN [kind |-> cal.kind, salary_calls |-> 0]
                      ELSE IF hol.kind # "ok" THEN [kind |-> hol.kind, salary_calls |-> 0]
                      ELSE get_payday_schedule(
                               [year |-> year, advance_day |-> advance_day,
                                mode |-> mode, amount |-> amount,
                                working_days |-> working_days,
                                calendar |-> cal.value, holidays |-> hol.value])
             IN  [requests |->
                     [calendar |-> cal.requests
                                   + LookupRequests(calendar_cache', year, r.salary_calls),
                      holidays |-> hol.requests]]
                 @@ IF r.kind = "HTTPError" THEN [kind |-> r.kind] ELSE r
    /\ pc' = "returned"

\* the caller takes the value or the exception and goes on
Return ==
    /\ pc = "returned"
    /\ pc' = "idle"
    /\ op' = NoCall
    /\ result' = NoResult
    /\ UNCHANGED <<calendar_cache, holidays_cache>>

\* the whole process: any call, any year
Next ==
    \/ GetWorkCalendar(Years)
    \/ GetHolidaysAndShortDays(Years)
    \/ CalculateSalary(Years, SampleDaysWorked)
    \/ GetPaydaySchedule(Years, SampleAdvanceDays)
    \/ Return

Spec == Init /\ [][Next]_vars

\* a caller of the salary calculator: every month, every days_worked
NextSalary ==
    \/ CalculateSalary(Years, DaysWorked)
    \/ Return

SpecSalary == Init /\ [][NextSalary]_vars

\* a caller of the scheduler that keeps to one year: every advance_day
NextSchedule ==
    \/ GetPaydaySchedule(YearsInUse, AdvanceDays)
    \/ Return

SpecSchedule == Init /\ [][NextSchedule]_vars

\* a caller of all four functions whose other arguments vary little: what
\* the providers do depends on the year alone
NextProviders ==
    \/ GetWorkCalendar(Years)
    \/ GetHolidaysAndShortDays(Years)
    \/ CalculateSalary(Years, {0, MaxDaysWorked})
    \/ GetPaydaySchedule(Years, {16, MaxAdvanceDay})
    \/ Return

SpecProviders == Init /\ [][NextProviders]_vars

---------------------------------------------------------------------------
(* What the properties below speak of *)

\* a get_payday_schedule call has ended and the caller has not gone on yet
ScheduleCallEnded == pc = "returned" /\ op.name = "get_payday_schedule"

\* ... and both providers had answered it
ScheduleCallPastProviders == ScheduleCallEnded /\ result.kind # "HTTPError"

\* ... and it returned a schedule
ScheduleReturned == ScheduleCallEnded /\ result.kind = "ok"

\* a direct calculate_salary call has ended
SalaryCallEnded == pc = "returned" /\ op.name = "calculate_salary"

\* the calendar and the holiday dates of the year of the call that ended
CallCalendar == calendar_cache[op.year]
CallHolidays == holidays_cache[op.year]
WorkingDaysOf(m) == CallCalendar[m].workingDays

\* the override list of the call that ended, when it has one
Overrides == op.working_days[1]

\* a date that is neither a Saturday or Sunday nor a holiday
IsWorkingDate(d, holidays) == Weekday(d) < 5 /\ d \notin holidays

\* d is the latest working date not after nominal
IsLatestWorkingDateUpTo(d, nominal, holidays) ==
    /\ d <= nominal
    /\ IsWorkingDate(d, holidays)
    /\ \A e \in (d + 1)..nominal : ~IsWorkingDate(e, holidays)

Min(a, b) == IF a < b THEN a ELSE b
Max(a, b) == IF a > b THEN a ELSE b

\* the nominal payment dates of month m as the specification states them
NominalAdvanceDate(year, m, advance_day) ==
    ToOrdinal(year, m, Min(advance_day, DaysInMonth(year, m)))

NominalSalaryDate(year, m, advance_day) ==
    ToOrdinal(IF m = 12 THEN year + 1 ELSE year,
              IF m = 12 THEN 1 ELSE m + 1,
              Max(1, advance_day - 15))

---------------------------------------------------------------------------
(* C1: a get_payday_schedule call without overrides that returns, returns  *)
(* exactly 24 items; for each month m the item at 0-based position 2(m-1)  *)
(* is the advance of month m and the next item is the salary of month m:   *)
(* each carries the payment date of its leg of month m, and the two        *)
(* periods are those of month m (their max_working_days add up to the      *)
(* month's working days).                                                  *)
C1_Returns24ItemsAdvanceThenSalaryPerMonth ==
    (ScheduleReturned /\ op.working_days = None) =>
        /\ Len(result.value) = 24
        /\ \A m \in Months :
            LET advance == result.value[2 * (m - 1) + 1]
                salary == result.value[2 * (m - 1) + 2]
            IN  /\ advance.it_is = "advance"
                /\ salary.it_is = "salary"
                /\ IsLatestWorkingDateUpTo(advance.date,
                       NominalAdvanceDate(op.year, m, op.advance_day), CallHolidays)
                /\ IsLatestWorkingDateUpTo(salary.date,
                       NominalSalaryDate(op.year, m, op.advance_day), CallHolidays)
                /\ advance.max_working_days + salary.max_working_days = WorkingDaysOf(m)

\* the schedule of the repository's test: 2025, advance on the 25th
C1_Witness ==
    /\ ScheduleReturned /\ op.working_days = None
    /\ op.year = 2025 /\ op.advance_day = 25
    /\ Len(result.value) = 24
    /\ result.value[1].date = ToOrdinal(2025, 1, 24)
    /\ result.value[2].date = ToOrdinal(2025, 2, 10)
    /\ result.value[24].date = ToOrdinal(2026, 1, 9)

\* some month's pair of the override list sums above the month's working days
SomeMonthExceeds ==
    \E i \in Months \cap DOMAIN Overrides :
        Overrides[i][1] + Overrides[i][2] > WorkingDaysOf(i)

---------------------------------------------------------------------------
(* C2: with overrides supplied, both providers answering and every month   *)
(* having a positive working-day count, the call ends in the validation    *)
(* error, returning no schedule, if and only if the list has not exactly   *)
(* 12 pairs or some month's pair sums above the month's working days; in   *)
(* every other case it returns the full schedule of 24 items.              *)
C2_ValidationErrorIffOverridesInvalid ==
    ( /\ ScheduleCallPastProviders
      /\ op.working_days # None
      /\ \A m \in Months : WorkingDaysOf(m) > 0 ) =>
        /\ result.kind = "ValueError" <=> (Len(Overrides) # 12 \/ SomeMonthExceeds)
        /\ result.kind = "ValueError" => "value" \notin DOMAIN result
        /\ result.kind # "ValueError" => result.kind = "ok" /\ Len(result.value) = 24

\* both outcomes at the edge: January 2016 has 15 working days, and the call
\* that asks for 5 + 10 days a month has returned
C2_Witness ==
    /\ ScheduleReturned
    /\ op.working_days = Some(Uniform(12, 5, 10))
    /\ op.year = 2016 /\ WorkingDaysOf(1) = 15
    /\ Len(result.value) = 24

---------------------------------------------------------------------------
(* C3 as stated: in a call whose overrides are invalid, the validation     *)
(* error is raised before any payment-date adjustment and before any       *)
(* calculate_salary invocation of the call.                                *)
C3_Original_NothingComputedBeforeValidationError ==
    (ScheduleCallEnded /\ result.kind = "ValueError") =>
        result.date_adjustments = 0 /\ result.salary_calls = 0

\* the first month whose pair sums above the month's working days
FirstExceedingMonth ==
    CHOOSE i \in Months :
        /\ Overrides[i][1] + Overrides[i][2] > WorkingDaysOf(i)
        /\ \A j \in 1..(i - 1) : Overrides[j][1] + Overrides[j][2] <= WorkingDaysOf(j)

(* C3, amended: a wrong count is rejected before any date adjustment and   *)
(* any calculate_salary invocation.  A pair summing above its month is     *)
(* rejected inside the loop, in the iteration of the first such month i:   *)
(* after the two date adjustments of each of the months 1..i and the two   *)
(* calculate_salary invocations of each of the months 1..i-1, and before   *)
(* any calculate_salary invocation for month i or a later month.  Either   *)
(* way no schedule is returned.                                            *)
C3_ValidationErrorRaisedInFirstExceedingMonth ==
    (ScheduleCallEnded /\ result.kind = "ValueError") =>
        /\ "value" \notin DOMAIN result
        /\ IF Len(Overrides) # 12
           THEN result.date_adjustments = 0 /\ result.salary_calls = 0
           ELSE /\ SomeMonthExceeds
                /\ result.date_adjustments = 2 * FirstExceedingMonth
                /\ result.salary_calls = 2 * (FirstExceedingMonth - 1)

\* May's pair is the first to exceed: four months have been computed
C3_Witness ==
    /\ ScheduleCallEnded /\ result.kind = "ValueError"
    /\ Len(Overrides) = 12
    /\ FirstExceedingMonth = 5
    /\ result.date_adjustments = 10
    /\ result.salary_calls = 8

---------------------------------------------------------------------------
(* C4: each payment date of a returned schedule is the latest date not     *)
(* after the nominal date that is neither a Saturday or Sunday nor in the  *)
(* holiday set fetched for the requested year; the advance leg's nominal   *)
(* date is day min(advance_day, last day of month m) of month m, the       *)
(* salary leg's is day max(1, advance_day - 15) of month m + 1 (January of *)
(* year + 1 for m = 12).  The search may cross month and year boundaries.  *)
C4_PaymentDateIsLatestWorkingDateUpToNominal ==
    ScheduleReturned =>
        \A m \in Months :
            /\ IsLatestWorkingDateUpTo(result.value[2 * m - 1].date,
                   NominalAdvanceDate(op.year, m, op.advance_day), CallHolidays)
            /\ IsLatestWorkingDateUpTo(result.value[2 * m].date,
                   NominalSalaryDate(op.year, m, op.advance_day), CallHolidays)

\* leap-year February's advance on the 29th, an advance that moved back into
\* the month before (1 June 2016 closed, paid on 31 May), and a December
\* salary that moved back across the turn of the year
C4_Witness ==
    /\ ScheduleReturned
    /\ op.year = 2016 /\ op.advance_day = 1
    /\ result.value[11].date = ToOrdinal(2016, 5, 31)
    /\ result.value[24].date < ToOrdinal(2017, 1, 1)
    /\ NominalAdvanceDate(2016, 2, 31) = ToOrdinal(2016, 2, 29)

---------------------------------------------------------------------------
(* C5 as stated: December's salary leg, the 24th item, carries a payment   *)
(* date in January of year + 1, for every year, advance_day and holiday    *)
(* set.                                                                    *)
C5_Original_DecemberSalaryInJanuaryOfNextYear ==
    ScheduleReturned =>
        /\ DateYear(result.value[24].date) = op.year + 1
        /\ DateMonth(result.value[24].date) = 1

(* C5, amended: December's salary leg has its nominal date in January of   *)
(* year + 1, and its payment date lies in January of year + 1 exactly when *)
(* some date from 1 January of year + 1 to the nominal date is neither a   *)
(* Saturday or Sunday nor in the holiday set; otherwise the payment date   *)
(* lies before 1 January of year + 1.  For year = 2025 and a holiday set   *)
(* without dates of 2026 it always lies in January 2026.                   *)
C5_DecemberSalaryInJanuaryUnlessMovedBack ==
    ScheduleReturned =>
        LET paid == result.value[24].date
            first == ToOrdinal(op.year + 1, 1, 1)
            nominal == NominalSalaryDate(op.year, 12, op.advance_day)
            in_january == DateYear(paid) = op.year + 1 /\ DateMonth(paid) = 1
        IN  /\ DateYear(nominal) = op.year + 1 /\ DateMonth(nominal) = 1
            /\ in_january <=> \E e \in first..nominal : IsWorkingDate(e, CallHolidays)
            /\ ~in_january => paid < first
            /\ (op.year = 2025 /\ \A h \in CallHolidays : DateYear(h) # 2026)
                   => in_january

\* 1 January 2017 is a Sunday: December 2016's salary is paid on 30 December
C5_Witness ==
    /\ ScheduleReturned
    /\ op.year = 2016 /\ op.advance_day = 16
    /\ result.value[24].date = ToOrdinal(2016, 12, 30)
    /\ \A h \in CallHolidays : DateYear(h) = 2016

---------------------------------------------------------------------------
(* C6: for every month m of every returned schedule, with or without       *)
(* overrides, the advance item's working_days plus the salary item's       *)
(* working_days is at most the month's working-day count.                  *)
C6_MonthWorkingDaysWithinCalendar ==
    ScheduleReturned =>
        \A m \in Months :
            result.value[2 * m - 1].working_days + result.value[2 * m].working_days
                <= WorkingDaysOf(m)

\* with overrides at the edge (5 + 10 days in a January of 15) and below it
C6_Witness ==
    /\ ScheduleReturned
    /\ op.working_days = Some(Uniform(12, 5, 10))
    /\ result.value[1].working_days + result.value[2].working_days = WorkingDaysOf(1)
    /\ result.value[3].working_days + result.value[4].working_days < WorkingDaysOf(2)

---------------------------------------------------------------------------
(* What the properties of calculate_salary speak of *)

\* a direct calculate_salary call has returned a SalaryResult
SalaryReturned == SalaryCallEnded /\ result.kind = "ok"

\* amount * days_worked / W, the month's working days W taken last
ProRata(amount, days_worked, W) ==
    RDiv(RMul(amount, FromInt(days_worked)), FromInt(W))

\* a number of the currency given in hundredths
Hundredths(n) == Rat(n, 100)

\* tax = before_tax * 0.13 and after_tax = before_tax - tax
TaxLaw(r) ==
    /\ r.tax = RMul(<<13, 100>>, r.before_tax)
    /\ RAdd(r.after_tax, r.tax) = r.before_tax

---------------------------------------------------------------------------
(* C7: for a month with a positive working-day count W, calculate_salary   *)
(* returns, in gross mode, before_tax = A*d/W, tax = 0.13*before_tax,      *)
(* after_tax = before_tax - tax, and in net mode, after_tax = A*d/W,       *)
(* before_tax = after_tax/(1 - 0.13), tax = 0.13*before_tax.  January      *)
(* 2025, W = 17, d = 17, A = 60000, net: before_tax about 68965.52,        *)
(* after_tax = 60000, tax about 8965.52.                                   *)
C7_SalaryFormulas ==
    SalaryReturned =>
        LET r == result.value
            W == WorkingDaysOf(op.month)
            share == ProRata(op.amount, op.days_worked, W)
        IN  /\ W > 0
            /\ op.mode = GROSS =>
                /\ r.before_tax = share
                /\ r.tax = RMul(<<13, 100>>, r.before_tax)
                /\ r.after_tax = RSub(r.before_tax, r.tax)
            /\ op.mode = NET =>
                /\ r.after_tax = share
                /\ RMul(r.before_tax, <<87, 100>>) = r.after_tax
                /\ r.tax = RMul(<<13, 100>>, r.before_tax)
            /\ ( /\ op.year = 2025 /\ op.month = 1 /\ W = 17 /\ op.days_worked = 17
                 /\ op.amount = FromInt(60000) /\ op.mode = NET ) =>
                /\ RNear(r.before_tax, Hundredths(6896552), Hundredths(1))
                /\ r.after_tax = FromInt(60000)
                /\ RNear(r.tax, Hundredths(896552), Hundredths(1))

\* the net-mode case of the repository's test
C7_Witness ==
    /\ SalaryReturned
    /\ op.year = 2025 /\ op.month = 1 /\ op.days_worked = 17
    /\ op.amount = FromInt(60000) /\ op.mode = NET
    /\ result.value.after_tax = FromInt(60000)
    /\ result.value.before_tax = <<2000000, 29>>

---------------------------------------------------------------------------
(* C8: every SalaryResult of calculate_salary, in gross and in net mode,   *)
(* satisfies tax = before_tax * 0.13 and after_tax = before_tax - tax; so  *)
(* does the SalaryResult of each of the 24 items of a schedule.            *)
C8_TaxLawOfEverySalaryResult ==
    /\ SalaryReturned => TaxLaw(result.value)
    /\ ScheduleReturned => \A i \in 1..24 : TaxLaw(result.value[i].salary)

\* a net-mode schedule with a non-zero amount
C8_Witness ==
    /\ ScheduleReturned
    /\ op.mode = NET /\ op.amount = FromInt(60000)
    /\ result.value[1].salary.tax[1] > 0
    /\ TaxLaw(result.value[24].salary)

\* the way back: the before_tax of the net-mode call that returned, fed to
\* calculate_salary in gross mode over the same month and days_worked
GrossOfNetResult ==
    calculate_salary(CallCalendar, op.month, op.days_worked,
                     result.value.before_tax, GROSS).value

---------------------------------------------------------------------------
(* C9 as stated: for every days_worked d in 0..W and every net target N,   *)
(* with r = calculate_salary(month, year, d, N, net), the after_tax of     *)
(* calculate_salary(month, year, d, r.before_tax, gross) equals            *)
(* r.after_tax within 0.01.                                                *)
C9_Original_RoundTripReproducesNet ==
    (SalaryReturned /\ op.mode = NET /\ op.days_worked <= WorkingDaysOf(op.month)) =>
        RNear(GrossOfNetResult.after_tax, result.value.after_tax, Hundredths(1))

(* C9, amended: the gross-mode call scales its amount by d/W once more, so *)
(* its after_tax equals r.after_tax * d / W; it reproduces r.after_tax     *)
(* (exactly, hence within 0.01) when d = W, the full month, and when       *)
(* r.after_tax is 0 (d = 0 or N = 0), and not for a part of a month.       *)
C9_RoundTripScalesByShareOfMonth ==
    (SalaryReturned /\ op.mode = NET /\ op.days_worked <= WorkingDaysOf(op.month)) =>
        LET W == WorkingDaysOf(op.month)
            back == GrossOfNetResult.after_tax
            net == result.value.after_tax
        IN  /\ back = ProRata(net, op.days_worked, W)
            /\ (op.days_worked = W \/ op.days_worked = 0 \/ op.amount = FromInt(0))
                   => back = net
            /\ (0 < op.days_worked /\ op.days_worked < W /\ op.amount[1] > 0)
                   => back # net

\* January 2025, 15 of 17 days, 60000 net: the way back gives 46712.80, not
\* the 52941.18 it started from
C9_Witness ==
    /\ SalaryReturned /\ op.mode = NET
    /\ op.year = 2025 /\ op.month = 1 /\ op.days_worked = 15
    /\ WorkingDaysOf(1) = 17 /\ op.amount = FromInt(60000)
    /\ RNear(result.value.after_tax, Hundredths(5294118), Hundredths(1))
    /\ RNear(GrossOfNetResult.after_tax, Hundredths(4671280), Hundredths(1))

---------------------------------------------------------------------------
(* C10: when the calendar reports 0 working days for the requested month,  *)
(* calculate_salary ends in an error and returns no SalaryResult, for      *)
(* every days_worked, amount and mode; and a get_payday_schedule call over *)
(* a year with such a month returns no schedule.                           *)
C10_ZeroWorkingDaysIsAnError ==
    /\ (SalaryCallEnded /\ result.kind # "HTTPError" /\ WorkingDaysOf(op.month) = 0) =>
           result.kind = "ZeroDivisionError" /\ "value" \notin DOMAIN result
    /\ (ScheduleCallPastProviders /\ \E m \in Months : WorkingDaysOf(m) = 0) =>
           /\ result.kind \in {"ValueError", "ZeroDivisionError"}
           /\ "value" \notin DOMAIN result

\* a schedule call that got as far as the month without working days: two
\* months computed, the division of the third one raised
C10_Witness ==
    /\ ScheduleCallEnded
    /\ result.kind = "ZeroDivisionError"
    /\ WorkingDaysOf(3) = 0
    /\ result.salary_calls = 5
    /\ op.amount = FromInt(60000)

---------------------------------------------------------------------------
(* Caching *)

\* the requests a call made to the calendar source and to the holiday source
CalendarRequestsOf(o, r) ==
    IF o.name = "get_payday_schedule" THEN r.requests.calendar
    ELSE IF o.name \in {"get_work_calendar", "calculate_salary"} THEN r.requests
    ELSE 0

HolidayRequestsOf(o, r) ==
    IF o.name = "get_payday_schedule" THEN r.requests.holidays
    ELSE IF o.name = "get_holidays_and_short_days" THEN r.requests
    ELSE 0

\* the call looked the calendar / the holiday dates up and got them
CalendarObtained(o, r) ==
    \/ o.name \in {"get_work_calendar", "calculate_salary"} /\ r.kind # "HTTPError"
    \/ o.name = "get_payday_schedule"
         /\ (r.kind # "HTTPError" \/ r.requests.holidays = 1)

HolidaysObtained(o, r) ==
    o.name \in {"get_holidays_and_short_days", "get_payday_schedule"}
    /\ r.kind # "HTTPError"

\* what a call for year y returns when it is served from the caches
ServedFrom(o, calendars, holidays) ==
    IF o.name = "get_work_calendar" THEN [kind |-> "ok", value |-> calendars[o.year]]
    ELSE IF o.name = "get_holidays_and_short_days"
    THEN [kind |-> "ok", value |-> holidays[o.year]]
    ELSE IF o.name = "calculate_salary"
    THEN calculate_salary(calendars[o.year], o.month, o.days_worked, o.amount, o.mode)
    ELSE get_payday_schedule(
             [year |-> o.year, advance_day |-> o.advance_day, mode |-> o.mode,
              amount |-> o.amount, working_days |-> o.working_days,
              calendar |-> calendars[o.year], holidays |-> holidays[o.year]])

\* the result of a call without its count of requests
Outcome(r) == [f \in DOMAIN r \ {"requests"} |-> r[f]]

\* C11: in a process making any sequence of the four calls, an entry of
\* either cache stays as it is for ever; a call for year y touches no entry
\* of another year; a call makes at most one request to each source, stores
\* what a successful fetch gave, and, when y was fetched before, makes no
\* request to that source and returns what the stored value gives
C11_FetchedYearIsServedFromTheCacheEverAfter ==
    [][ /\ \A y \in DOMAIN calendar_cache :
             y \in DOMAIN calendar_cache' /\ calendar_cache'[y] = calendar_cache[y]
        /\ \A y \in DOMAIN holidays_cache :
             y \in DOMAIN holidays_cache' /\ holidays_cache'[y] = holidays_cache[y]
        /\ pc = "idle" /\ pc' = "returned" =>
             LET y == op'.year
                 cal_requests == CalendarRequestsOf(op', result')
                 hol_requests == HolidayRequestsOf(op', result')
             IN  /\ DOMAIN calendar_cache' \subseteq DOMAIN calendar_cache \cup {y}
                 /\ DOMAIN holidays_cache' \subseteq DOMAIN holidays_cache \cup {y}
                 /\ cal_requests <= 1 /\ hol_requests <= 1
                 /\ y \in DOMAIN calendar_cache => cal_requests = 0
                 /\ y \in DOMAIN holidays_cache => hol_requests = 0
                 /\ CalendarObtained(op', result') => y \in DOMAIN calendar_cache'
                 /\ HolidaysObtained(op', result') => y \in DOMAIN holidays_cache'
                 /\ result'.kind # "HTTPError"
                    => Outcome(result') = ServedFrom(op', calendar_cache', holidays_cache')
      ]_vars

\* a schedule was returned without a request to either source, while the
\* entries of both years are in both caches
C11_Witness ==
    /\ ScheduleReturned
    /\ result.requests = [calendar |-> 0, holidays |-> 0]
    /\ DOMAIN calendar_cache = Years
    /\ DOMAIN holidays_cache = Years
---------------------------------------------------------------------------
(* Failing sources *)

\* the call that ended asked the source once and nothing came of it
CalendarFailed ==
    CalendarRequestsOf(op, result) = 1 /\ op.year \notin DOMAIN calendar_cache

HolidaysFailed ==
    HolidayRequestsOf(op, result) = 1 /\ op.year \notin DOMAIN holidays_cache

\* C12: a call of any of the four functions during which a source fails
\* ends with the HTTP error and without a value, a schedule or a part of
\* one; the failed source was asked once, nothing was stored in its place,
\* and after a failed calendar request the holiday source is not asked.  No
\* call asks a source twice, and whatever the caches hold is an answer of
\* the source
C12_FailedSourceEndsTheCallWithItsError ==
    /\ \A y \in DOMAIN calendar_cache :
         calendar_cache[y] \in {ParseCalendar(r) : r \in CalendarResponses(y)}
    /\ \A y \in DOMAIN holidays_cache :
         holidays_cache[y] \in {ParseHolidays(r) : r \in HolidayResponses(y)}
    /\ pc = "returned" =>
         /\ CalendarRequestsOf(op, result) <= 1
         /\ HolidayRequestsOf(op, result) <= 1
         /\ CalendarFailed \/ HolidaysFailed <=> result.kind = "HTTPError"
         /\ result.kind = "HTTPError" =>
              /\ DOMAIN result = {"kind", "requests"}
              /\ ~(CalendarFailed /\ HolidaysFailed)
              /\ CalendarFailed => HolidayRequestsOf(op, result) = 0

\* a schedule call got the calendar and then failed on the holiday source
C12_Witness ==
    /\ ScheduleCallEnded
    /\ result.kind = "HTTPError"
    /\ result.requests = [calendar |-> 1, holidays |-> 1]
    /\ op.year \in DOMAIN calendar_cache
    /\ HolidaysFailed
---------------------------------------------------------------------------
(* The items of a returned schedule *)

\* the item of month m's advance and of month m's salary
AdvanceOf(m) == result.value[2 * m - 1]
SalaryOf(m) == result.value[2 * m]

\* none of the three amounts of a SalaryResult is below zero
NonNegative(r) ==
    /\ RLeq(FromInt(0), r.before_tax)
    /\ RLeq(FromInt(0), r.tax)
    /\ RLeq(FromInt(0), r.after_tax)

\* the number of working dates in days 1..15 of month m of the call's year
WorkingDatesOfFirstHalf(m) ==
    Cardinality({d \in 1..15 : IsWorkingDate(ToOrdinal(op.year, m, d), CallHolidays)})

\* C13 as stated: whenever a schedule is returned (the amount is never
\* negative here), before_tax, tax and after_tax of all its items are
\* non-negative
C13_Original_AllAmountsNonNegative ==
    ScheduleReturned =>
        \A i \in 1..Len(result.value) : NonNegative(result.value[i].salary)

\* C13: in a schedule returned for an amount >= 0, the three amounts of an
\* item are non-negative exactly when the amount is 0 or the item's
\* working_days is not negative; an override pair is taken as it is, and
\* without overrides the periods are the count of working dates in days
\* 1..15 and the month's working days less that count
C13_AmountsNonNegativeIffWorkingDaysAre ==
    ScheduleReturned =>
        /\ RLeq(FromInt(0), op.amount)
        /\ \A i \in 1..Len(result.value) :
             LET item == result.value[i]
             IN  NonNegative(item.salary)
                    <=> (op.amount = FromInt(0) \/ item.working_days >= 0)
        /\ \A m \in Months :
             IF op.working_days # None
             THEN /\ AdvanceOf(m).working_days = Overrides[m][1]
                  /\ SalaryOf(m).working_days = Overrides[m][2]
             ELSE /\ AdvanceOf(m).working_days = WorkingDatesOfFirstHalf(m)
                  /\ SalaryOf(m).working_days
                        = WorkingDaysOf(m) - WorkingDatesOfFirstHalf(m)

\* a schedule returned for 60000 and twelve pairs (-1, 10): the advance
\* items carry amounts below zero
C13_Witness ==
    /\ ScheduleReturned
    /\ op.amount = FromInt(60000)
    /\ op.working_days = Some(Uniform(12, -1, 10))
    /\ \A m \in Months : ~NonNegative(AdvanceOf(m).salary)
    /\ \A m \in Months : NonNegative(SalaryOf(m).salary)
\* the part of the amount an item stands for: before tax in gross mode,
\* after tax in net mode
AmountOf(item) ==
    IF op.mode = GROSS THEN item.salary.before_tax ELSE item.salary.after_tax

\* the call the specification gives as its example, answered by the
\* published calendar and the public holidays of 2025
Example2025 ==
    /\ ScheduleReturned
    /\ op.year = 2025 /\ op.advance_day = 25
    /\ op.amount = FromInt(60000) /\ op.working_days = None
    /\ ToOrdinal(2025, 1, 1) \in CallHolidays

\* C14: in a returned schedule both items of month m are priced by the
\* working days of month m of the requested year: each item's SalaryResult
\* is what calculate_salary gives for month m and the item's working_days,
\* that is amount * working_days / workingDays(m) before tax (gross mode) or
\* after tax (net mode), although the salary is paid in month m + 1.  For
\* 2025, advance_day 25 and 60000 gross, January's salary item stands for
\* 12 days and 60000 * 12 / 17, about 42352, before tax
C14_BothLegsPricedByTheWorkedMonth ==
    ScheduleReturned =>
        /\ \A m \in Months :
             /\ WorkingDaysOf(m) > 0
             /\ \A item \in {AdvanceOf(m), SalaryOf(m)} :
                  /\ item.salary = calculate_salary(CallCalendar, m, item.working_days,
                                                    op.amount, op.mode).value
                  /\ AmountOf(item)
                       = ProRata(op.amount, item.working_days, WorkingDaysOf(m))
                  /\ TaxLaw(item.salary)
        /\ Example2025 /\ op.mode = GROSS =>
             /\ SalaryOf(1).working_days = 12
             /\ SalaryOf(1).salary.before_tax = Rat(60000 * 12, 17)
             /\ RNear(SalaryOf(1).salary.before_tax, FromInt(42352), FromInt(1))

\* the example's schedule: January's salary is paid in February and priced
\* by January's 17 working days, not by February's 20
C14_Witness ==
    /\ Example2025 /\ op.mode = GROSS
    /\ DateMonth(SalaryOf(1).date) = 2
    /\ WorkingDaysOf(1) = 17 /\ WorkingDaysOf(2) = 20
    /\ SalaryOf(1).salary.before_tax = Rat(60000 * 12, 17)
\* C15: in a returned schedule an item's date_was_moved is true exactly
\* when its payment date differs from its nominal date: for the advance of
\* month m, day min(advance_day, last day of m) of month m; for the salary,
\* day max(1, advance_day - 15) of the month after.  An advance_day beyond
\* the month's length that lands on a working last day is not a move
C15_DateWasMovedIffDateDiffersFromNominal ==
    ScheduleReturned =>
        \A m \in Months :
            LET nominal_advance == NominalAdvanceDate(op.year, m, op.advance_day)
                nominal_salary == NominalSalaryDate(op.year, m, op.advance_day)
                last_day == ToOrdinal(op.year, m, DaysInMonth(op.year, m))
            IN  /\ AdvanceOf(m).date_was_moved \in BOOLEAN
                /\ SalaryOf(m).date_was_moved \in BOOLEAN
                /\ AdvanceOf(m).date_was_moved <=> AdvanceOf(m).date # nominal_advance
                /\ SalaryOf(m).date_was_moved <=> SalaryOf(m).date # nominal_salary
                /\ op.advance_day > DaysInMonth(op.year, m)
                   /\ IsWorkingDate(last_day, CallHolidays)
                   => AdvanceOf(m).date = last_day /\ ~AdvanceOf(m).date_was_moved

\* advance_day beyond April's 30 days in 2025: April's advance is paid on
\* Wednesday 30 April and is not reported as moved, May's moves from
\* Saturday 31 May to Friday 30 May and is
C15_Witness ==
    /\ ScheduleReturned
    /\ op.year = 2025 /\ op.advance_day > 30
    /\ AdvanceOf(4).date = ToOrdinal(2025, 4, 30) /\ ~AdvanceOf(4).date_was_moved
    /\ AdvanceOf(5).date = ToOrdinal(2025, 5, 30) /\ AdvanceOf(5).date_was_moved
\* C16: in a returned schedule the advance item's max_working_days is the
\* number of dates in days 1..15 of month m that are neither Saturday nor
\* Sunday nor a holiday, and the salary item's is workingDays(m) less that
\* number.  Without overrides each item's working_days is its
\* max_working_days, so the two periods cover workingDays(m) and the two
\* amounts add up to the monthly amount (2025, advance_day 25: January 5
\* and 12 days, December's salary 11 days)
C16_PeriodsSplitTheMonthAtThe15th ==
    ScheduleReturned =>
        /\ \A m \in Months :
             /\ AdvanceOf(m).max_working_days = WorkingDatesOfFirstHalf(m)
             /\ SalaryOf(m).max_working_days
                   = WorkingDaysOf(m) - WorkingDatesOfFirstHalf(m)
             /\ op.working_days = None =>
                  /\ AdvanceOf(m).working_days = AdvanceOf(m).max_working_days
                  /\ SalaryOf(m).working_days = SalaryOf(m).max_working_days
                  /\ AdvanceOf(m).working_days + SalaryOf(m).working_days
                        = WorkingDaysOf(m)
                  /\ RAdd(AmountOf(AdvanceOf(m)), AmountOf(SalaryOf(m))) = op.amount
        /\ Example2025 =>
             /\ AdvanceOf(1).working_days = 5 /\ SalaryOf(1).working_days = 12
             /\ SalaryOf(12).working_days = 11

\* the example's schedule in net mode: January's 5 and 12 days, and
\* March 2025, whose 8th is a holiday on a Saturday: 10 and 11 days
C16_Witness ==
    /\ Example2025 /\ op.mode = NET
    /\ AdvanceOf(1).max_working_days = 5 /\ SalaryOf(1).max_working_days = 12
    /\ AdvanceOf(3).working_days = 10 /\ SalaryOf(3).working_days = 11
    /\ RAdd(AdvanceOf(1).salary.after_tax, SalaryOf(1).salary.after_tax) = FromInt(60000)
\* 0 <= working_days <= max_working_days
WithinMax(item) == 0 <= item.working_days /\ item.working_days <= item.max_working_days

\* C17 as stated: every item of every returned schedule, with or without
\* overrides, has 0 <= working_days <= max_working_days
C17_Original_WorkingDaysWithinMax ==
    ScheduleReturned =>
        \A i \in 1..Len(result.value) : WithinMax(result.value[i])

\* C17: without overrides every item of a returned schedule has
\* working_days = max_working_days, the advance's never negative and the
\* salary's not negative when the month has at least as many working days
\* as its days 1..15 have working dates.  With overrides the pair's sum is
\* within the month's working days, and an item has
\* 0 <= working_days <= max_working_days exactly when the caller's number
\* is within the period's working days
C17_WorkingDaysWithinMaxIffTheCallersAre ==
    ScheduleReturned =>
        \A m \in Months :
            LET advance_max == WorkingDatesOfFirstHalf(m)
                salary_max == WorkingDaysOf(m) - advance_max
            IN  IF op.working_days = None
                THEN /\ AdvanceOf(m).working_days = AdvanceOf(m).max_working_days
                     /\ SalaryOf(m).working_days = SalaryOf(m).max_working_days
                     /\ WithinMax(AdvanceOf(m))
                     /\ WithinMax(SalaryOf(m)) <=> WorkingDaysOf(m) >= advance_max
                ELSE /\ AdvanceOf(m).working_days + SalaryOf(m).working_days
                           <= WorkingDaysOf(m)
                     /\ WithinMax(AdvanceOf(m))
                           <=> (0 <= Overrides[m][1] /\ Overrides[m][1] <= advance_max)
                     /\ WithinMax(SalaryOf(m))
                           <=> (0 <= Overrides[m][2] /\ Overrides[m][2] <= salary_max)

\* twelve pairs (5, 10) in 2016 are accepted, and February's salary item
\* stands for 10 days of the 9 its period has
C17_Witness ==
    /\ ScheduleReturned
    /\ op.year = 2016 /\ op.working_days = Some(Uniform(12, 5, 10))
    /\ SalaryOf(2).working_days = 10 /\ SalaryOf(2).max_working_days = 9
    /\ WithinMax(AdvanceOf(2))
====
